---------------------------- MODULE Spec2Model ----------------------------
(***************************************************************************)
(* A model of nescookie, a parser of Netscape "cookies.txt" files          *)
(* (src/src/lib.rs, src/src/error.rs).                                     *)
(*                                                                         *)
(* Text is modelled as a sequence of one-character strings, so that        *)
(* str::lines, str::trim, str::starts_with, str::trim_start_matches,       *)
(* str::split and str::parse::<i64> are computed character by character.   *)
(* A 64-bit integer is kept as its sign and its decimal digits without     *)
(* leading zeros, which keeps the full width of i64 (overflow is decided   *)
(* by comparing digit strings with the digits of i64::MAX / i64::MIN).     *)
(***************************************************************************)
EXTENDS Integers, Sequences, FiniteSets, TLC

VARIABLES
    jar,      \* CookieJarBuilder.jar: the cookies held by the builder
    pc,       \* "ready" | "parsing" | "failed" | "finished"
    s,        \* the argument of the parse call in progress (or of the last one)
    rest,     \* the lines s.lines() has not yielded yet
    raw,      \* the line last yielded by s.lines(), before trim
    c,        \* the loop variable of parse: the trimmed line
    cookie,   \* the cookie built by the last iteration, NoCookie if none
    result,   \* what the last parse call returned: Pending, Ok or Err(e)
    given,    \* the jar the builder was constructed with
    jar0,     \* the builder's jar when the parse call in progress was entered
    parsed,   \* the texts parsed successfully so far, in call order
    nlines    \* the number of lines handed to parse so far

vars == <<jar, pc, s, rest, raw, c, cookie, result, given, jar0, parsed, nlines>>

-----------------------------------------------------------------------------
(* Bounds of the model *)

\* the most lines handed to one builder over all its parse calls
MaxLines == 2

\* the most parse calls chained on one builder
MaxParses == 2

-----------------------------------------------------------------------------
(* Characters and strings *)

TAB == "\t"
LF == "\n"
CR == "\r"
SP == " "

Digits == <<"0", "1", "2", "3", "4", "5", "6", "7", "8", "9">>

IsDigit(ch) == \E i \in 1..10 : Digits[i] = ch

\* the value 0..9 of a decimal digit character
DigitVal(ch) == (CHOOSE i \in 1..10 : Digits[i] = ch) - 1

\* char::is_whitespace, on the characters of the model's alphabet
IsWhitespace(ch) == ch \in {SP, TAB, CR, LF}

\* str::starts_with
StartsWith(str, pat) ==
    /\ Len(str) >= Len(pat)
    /\ SubSeq(str, 1, Len(pat)) = pat

\* the text after the first n characters
Drop(str, n) == SubSeq(str, n + 1, Len(str))

RECURSIVE TrimStart(_)
TrimStart(str) ==
    IF str # <<>> /\ IsWhitespace(Head(str)) THEN TrimStart(Tail(str)) ELSE str

RECURSIVE TrimEnd(_)
TrimEnd(str) ==
    IF str # <<>> /\ IsWhitespace(str[Len(str)])
    THEN TrimEnd(SubSeq(str, 1, Len(str) - 1))
    ELSE str

\* a trim that leaves tab characters in place
TrimKeepingTabs(str) ==
    LET ws(ch) == ch \in {SP, CR, LF}
        first == IF \E i \in 1..Len(str) : ~ws(str[i])
                 THEN CHOOSE i \in 1..Len(str) :
                          ~ws(str[i]) /\ \A j \in 1..(i - 1) : ws(str[j])
                 ELSE Len(str) + 1
        last == IF \E i \in 1..Len(str) : ~ws(str[i])
                THEN CHOOSE i \in 1..Len(str) :
                         ~ws(str[i]) /\ \A j \in (i + 1)..Len(str) : ws(str[j])
                ELSE Len(str)
    IN SubSeq(str, first, last)

\* str::trim: leading and trailing whitespace removed, tabs included
Trim(str) == TrimEnd(TrimStart(str))

\* a prefix removal that removes one occurrence only (str::strip_prefix)
StripPrefixOnce(str, pat) ==
    IF pat # <<>> /\ StartsWith(str, pat) THEN Drop(str, Len(pat)) ELSE str

\* str::trim_start_matches: the prefix is removed as long as it matches
RECURSIVE TrimStartMatches(_, _)
TrimStartMatches(str, pat) ==
    IF pat # <<>> /\ StartsWith(str, pat)
    THEN TrimStartMatches(Drop(str, Len(pat)), pat)
    ELSE str

\* str::split(sep): the fields between separators; always at least one
\* field.  Field k lies between the (k-1)-th and the k-th separator, the
\* start and the end of the text counting as separators.
Split(str, sep) ==
    LET at == {i \in 1..Len(str) : str[i] = sep}
        n == Cardinality(at)
        pos(k) == IF k = 0 THEN 0
                  ELSE IF k = n + 1 THEN Len(str) + 1
                  ELSE CHOOSE i \in at : Cardinality({j \in at : j < i}) = k - 1
    IN [k \in 1..(n + 1) |-> SubSeq(str, pos(k - 1) + 1, pos(k) - 1)]

\* str::lines: split at "\n", the final terminator optional, and one "\r"
\* before the terminator removed
Lines(str) ==
    LET pieces == Split(str, LF)
        n == IF pieces[Len(pieces)] = <<>> THEN Len(pieces) - 1 ELSE Len(pieces)
        strip(l) == IF l # <<>> /\ l[Len(l)] = CR
                    THEN SubSeq(l, 1, Len(l) - 1) ELSE l
    IN [k \in 1..n |-> strip(pieces[k])]

-----------------------------------------------------------------------------
(* str::parse::<i64> *)

\* the decimal digits of i64::MAX = 9223372036854775807
I64MaxDigits ==
    <<"9", "2", "2", "3", "3", "7", "2", "0", "3", "6",
      "8", "5", "4", "7", "7", "5", "8", "0", "7">>

\* the decimal digits of -i64::MIN = 9223372036854775808
I64MinDigits ==
    <<"9", "2", "2", "3", "3", "7", "2", "0", "3", "6",
      "8", "5", "4", "7", "7", "5", "8", "0", "8">>

RECURSIVE StripZeros(_)
StripZeros(ds) ==
    IF Len(ds) > 1 /\ Head(ds) = "0" THEN StripZeros(Tail(ds)) ELSE ds

\* a > b for two digit strings without leading zeros
DigitsGreater(a, b) ==
    \/ Len(a) > Len(b)
    \/ /\ Len(a) = Len(b)
       /\ \E i \in 1..Len(a) :
              /\ DigitVal(a[i]) > DigitVal(b[i])
              /\ \A j \in 1..(i - 1) : a[j] = b[j]

NotAnInt == [ok |-> FALSE]

\* the integer of sign neg and magnitude mag (digits without leading zeros)
Int64(neg, mag) == [ok |-> TRUE, neg |-> neg /\ mag # <<"0">>, mag |-> mag]

Zero64 == Int64(FALSE, <<"0">>)

\* <i64 as FromStr>::from_str: an optional sign, then one or more decimal
\* digits, the value within i64::MIN..=i64::MAX
ParseI64(tok) ==
    LET signed == tok # <<>> /\ Head(tok) \in {"+", "-"}
        neg == tok # <<>> /\ Head(tok) = "-"
        ds == IF signed THEN Tail(tok) ELSE tok
        mag == StripZeros(ds)
    IN IF ds = <<>> THEN NotAnInt
       ELSE IF \E i \in 1..Len(ds) : ~IsDigit(ds[i]) THEN NotAnInt
       ELSE IF DigitsGreater(mag, IF neg THEN I64MinDigits ELSE I64MaxDigits)
       THEN NotAnInt
       ELSE Int64(neg, mag)

-----------------------------------------------------------------------------
(* Errors (src/src/error.rs) *)

\* ParseError::TooFewFileds
TooFewFileds == [type |-> "TooFewFileds"]

\* ParseError::InvaildValue(String)
InvaildValue(value) == [type |-> "InvaildValue", value |-> value]

Pending == [tag |-> "Pending"]
Ok == [tag |-> "Ok"]
Err(e) == [tag |-> "Err", err |-> e]

-----------------------------------------------------------------------------
(* Cookies and the jar *)

NoCookie == [built |-> FALSE]

\* Expiration::Session, what expires(None) sets
Session == [kind |-> "Session"]

\* Expiration::DateTime(OffsetDateTime::from_unix_timestamp(exp))
DateTime(exp) == [kind |-> "DateTime", unix_timestamp |-> exp]

\* the match on expiration without the arm for 0
ExpiresAlwaysDateTime(expiration) == DateTime(expiration)

\* match expiration { 0 => None, exp => Some(from_unix_timestamp(exp)) }
Expires(expiration) ==
    IF expiration = Zero64 THEN Session ELSE DateTime(expiration)

\* a secure match that ignores case and surrounding blanks
ParseSecureLenient(tok) ==
    LET t == Trim(tok)
    IN IF t \in {<<"T", "R", "U", "E">>, <<"t", "r", "u", "e">>}
       THEN [ok |-> TRUE, secure |-> TRUE]
       ELSE IF t \in {<<"F", "A", "L", "S", "E">>, <<"f", "a", "l", "s", "e">>}
       THEN [ok |-> TRUE, secure |-> FALSE]
       ELSE [ok |-> FALSE]

\* match token { "TRUE" => true, "FALSE" => false, value => return Err(..) }
ParseSecure(tok) ==
    IF tok = <<"T", "R", "U", "E">> THEN [ok |-> TRUE, secure |-> TRUE]
    ELSE IF tok = <<"F", "A", "L", "S", "E">> THEN [ok |-> TRUE, secure |-> FALSE]
    ELSE [ok |-> FALSE]

\* Cookie::build(name, value).domain(..).path(..).secure(..).expires(..)
\* and, for an HttpOnly line, .http_only(true); http_only stays unset otherwise
BuildCookie(http_only, domain, path, secure, expiration, name, value) ==
    [built |-> TRUE,
     name |-> name,
     value |-> value,
     domain |-> domain,
     path |-> path,
     secure |-> secure,
     expires |-> Expires(expiration),
     http_only |-> IF http_only THEN "Some(true)" ELSE "None"]

\* CookieJar::add of the cookie crate: the jar is a hash set of cookies hashed
\* and compared by name alone, and add replaces the cookie of the same name
JarAdd(j, ck) == {x \in j : x.name # ck.name} \cup {ck}

-----------------------------------------------------------------------------
(* One iteration of the loop of CookieJarBuilder::parse *)

HttpOnlyMarker == <<"#", "H", "t", "t", "p", "O", "n", "l", "y", "_">>

Continue == [kind |-> "continue"]
Data(http_only, fileds) ==
    [kind |-> "data", http_only |-> http_only, fileds |-> fileds]
Built(ck) == [kind |-> "cookie", cookie |-> ck]
Failed(e) == [kind |-> "err", err |-> e]

\* a classification that takes only "# " to start a comment
ClassifyHashSpace(line) ==
    IF StartsWith(line, HttpOnlyMarker)
    THEN Data(TRUE, Split(TrimStartMatches(line, HttpOnlyMarker), TAB))
    ELSE IF StartsWith(line, <<"#", " ">>) \/ line = <<"#">> THEN Continue
    ELSE Data(FALSE, Split(line, TAB))

\* let (http_only, mut fileds) = if c.starts_with('#') { .. } else { .. };
Classify(line) ==
    IF StartsWith(line, <<"#">>)
    THEN IF StartsWith(line, HttpOnlyMarker)
         THEN Data(TRUE, Split(TrimStartMatches(line, HttpOnlyMarker), TAB))
         ELSE Continue
    ELSE Data(FALSE, Split(line, TAB))

\* a tokenizer that looks for missing fields before it validates any
TokenizeCountFirst(http_only, fileds) ==
    IF Len(fileds) < 7 THEN Failed(TooFewFileds)
    ELSE IF ~ParseSecure(fileds[4]).ok THEN Failed(InvaildValue(fileds[4]))
    ELSE IF ~ParseI64(fileds[5]).ok THEN Failed(InvaildValue(fileds[5]))
    ELSE Built(BuildCookie(http_only, fileds[1], fileds[3],
                           ParseSecure(fileds[4]).secure, ParseI64(fileds[5]),
                           fileds[6], fileds[7]))

\* the body of the loop from the first fileds.next() on: the k-th call of
\* fileds.next() is Some(fileds[k]) when k <= Len(fileds) and None otherwise
Tokenize(http_only, fileds) ==
    IF Len(fileds) < 1 THEN Failed(TooFewFileds)          \* domain
    ELSE IF Len(fileds) < 3 THEN Failed(TooFewFileds)     \* subdomain ignored; path
    ELSE IF Len(fileds) < 4 THEN Failed(TooFewFileds)     \* secure
    ELSE IF ~ParseSecure(fileds[4]).ok THEN Failed(InvaildValue(fileds[4]))
    ELSE IF Len(fileds) < 5 THEN Failed(TooFewFileds)     \* expiration
    ELSE IF ~ParseI64(fileds[5]).ok THEN Failed(InvaildValue(fileds[5]))
    ELSE IF Len(fileds) < 6 THEN Failed(TooFewFileds)     \* name
    ELSE IF Len(fileds) < 7 THEN Failed(TooFewFileds)     \* value
    ELSE Built(BuildCookie(http_only, fileds[1], fileds[3],
                           ParseSecure(fileds[4]).secure, ParseI64(fileds[5]),
                           fileds[6], fileds[7]))

\* what one iteration does with the trimmed, non-empty line
ProcessLine(line) ==
    LET cl == Classify(line)
    IN IF cl.kind = "continue" THEN Continue
       ELSE Tokenize(cl.http_only, cl.fileds)

-----------------------------------------------------------------------------
(* The inputs: texts made of the lines of LinePool *)

RECURSIVE Join(_, _)
Join(parts, sep) ==
    IF parts = <<>> THEN <<>>
    ELSE IF Len(parts) = 1 THEN parts[1]
    ELSE parts[1] \o <<sep>> \o Join(Tail(parts), sep)

T_TRUE == <<"T", "R", "U", "E">>
T_FALSE == <<"F", "A", "L", "S", "E">>
T_true == <<"t", "r", "u", "e">>
T_I64Min == <<"-">> \o I64MinDigits
T_I64Over == I64MinDigits

Fields(domain, path, secure, expiration, name, value) ==
    Join(<<domain, <<"T">>, path, secure, expiration, name, value>>, TAB)

LinePool ==
    { \* well-formed data lines
      Fields(<<"d">>, <<"/">>, T_TRUE, <<"0">>, <<"n">>, <<"v">>),
      \* the name of the first line again, for another domain; i64::MIN
      Fields(<<"e">>, <<"/">>, T_FALSE, T_I64Min, <<"n">>, <<"x">>),
      \* empty subdomain flag, path and name
      Join(<<<<"d">>, <<>>, <<>>, T_TRUE, <<"0">>, <<>>, <<"v">>>>, TAB),
      \* an eighth field, blanks around the line and a "\r" before the "\n"
      <<SP>> \o Fields(<<"e">>, <<"/">>, T_FALSE, <<"+", "5">>, <<"m">>, <<"w">>)
             \o <<TAB, "z", SP, CR>>,
      \* HttpOnly lines: with a zero that is not written "0", with the marker
      \* twice, with an empty domain
      HttpOnlyMarker
          \o Fields(<<"d">>, <<"/">>, T_TRUE, <<"-", "0">>, <<"k">>, <<"v">>),
      HttpOnlyMarker \o HttpOnlyMarker
          \o Fields(<<"d">>, <<"/">>, T_FALSE, <<"0">>, <<"h">>, <<"v">>),
      HttpOnlyMarker
          \o Fields(<<>>, <<"/">>, T_TRUE, <<"0">>, <<"n">>, <<"v">>),
      \* a comment that would be a malformed data line, a blank line, an empty line
      <<SP, "#", "x", TAB, "T">>,
      <<SP, TAB>>,
      <<>>,
      \* too few fields: four with a bad secure token, five with a bad
      \* expiration token, six
      Join(<<<<"d">>, <<"T">>, <<"/">>, T_true>>, TAB),
      Join(<<<<"d">>, <<"T">>, <<"/">>, T_TRUE, <<"1", "x">>>>, TAB),
      Join(<<<<"d">>, <<"T">>, <<"/">>, T_TRUE, <<"0">>, <<"n">>>>, TAB),
      \* seven fields with a bad secure token (empty, " TRUE") or a bad
      \* expiration token (i64::MAX + 1)
      Fields(<<"d">>, <<"/">>, <<>>, <<"0">>, <<"n">>, <<"v">>),
      Fields(<<"d">>, <<"/">>, <<SP>> \o T_TRUE, <<"0">>, <<"n">>, <<"v">>),
      Fields(<<"d">>, <<"/">>, T_TRUE, T_I64Over, <<"n">>, <<"v">>),
      \* an empty value, so that the line ends with a tab; an empty domain,
      \* so that the line starts with one
      Fields(<<"d">>, <<"/">>, T_TRUE, <<"0">>, <<"n">>, <<>>),
      Fields(<<>>, <<"/">>, T_TRUE, <<"0">>, <<"n">>, <<"v">>) }

\* the sequences of 1..n lines of the pool
RECURSIVE LineSeqs(_)
LineSeqs(n) ==
    IF n <= 0 THEN {}
    ELSE IF n = 1 THEN {<<l>> : l \in LinePool}
    ELSE LET shorter == LineSeqs(n - 1)
         IN shorter \cup {Append(ls, l) : ls \in shorter, l \in LinePool}

\* the texts of at most n lines: the lines joined by "\n" (a text whose last
\* line is empty ends with the terminator)
Texts == [n \in 0..MaxLines |-> {Join(ls, LF) : ls \in LineSeqs(n)}]

\* the number of lines a text is made of
Cost(t) == Len(Split(t, LF))

\* a cookie of a jar handed to with_jar
GivenCookie ==
    [built |-> TRUE, name |-> <<"n">>, value |-> <<"g">>, domain |-> <<"o">>,
     path |-> <<"/">>, secure |-> FALSE, expires |-> Session,
     http_only |-> "None"]

\* CookieJarBuilder::new(): Self::default(), an empty jar
New == {}

\* CookieJarBuilder::with_jar(jar)
WithJar(j) == j

GivenJars == {New, WithJar({GivenCookie})}

-----------------------------------------------------------------------------
(* The state machine *)

Init ==
    /\ given \in GivenJars
    /\ jar = given
    /\ jar0 = given
    /\ pc = "ready"
    /\ s = <<>>
    /\ rest = <<>>
    /\ raw = <<>>
    /\ c = <<>>
    /\ cookie = NoCookie
    /\ result = Pending
    /\ parsed = <<>>
    /\ nlines = 0

\* the call builder.parse(t): the iterator over the lines of t is created
ParseStart(t) ==
    /\ pc = "ready"
    /\ Len(parsed) < MaxParses
    /\ nlines + Cost(t) <= MaxLines
    /\ pc' = "parsing"
    /\ s' = t
    /\ rest' = Lines(t)
    /\ jar0' = jar
    /\ raw' = <<>>
    /\ c' = <<>>
    /\ cookie' = NoCookie
    /\ result' = Pending
    /\ nlines' = nlines + Cost(t)
    /\ UNCHANGED <<jar, given, parsed>>

\* .filter(|s| !s.is_empty()): a line that is empty after trim is passed over
SkipBlank ==
    /\ pc = "parsing"
    /\ rest # <<>>
    /\ Trim(Head(rest)) = <<>>
    /\ raw' = Head(rest)
    /\ c' = <<>>
    /\ cookie' = NoCookie
    /\ rest' = Tail(rest)
    /\ UNCHANGED <<jar, pc, s, result, given, jar0, parsed, nlines>>

\* continue: a line that starts with '#' but not with the marker
SkipComment ==
    /\ pc = "parsing"
    /\ rest # <<>>
    /\ Trim(Head(rest)) # <<>>
    /\ ProcessLine(Trim(Head(rest))).kind = "continue"
    /\ raw' = Head(rest)
    /\ c' = Trim(Head(rest))
    /\ cookie' = NoCookie
    /\ rest' = Tail(rest)
    /\ UNCHANGED <<jar, pc, s, result, given, jar0, parsed, nlines>>

\* an iteration that builds a cookie: self.jar.add(cookie.into_owned())
AddCookie ==
    /\ pc = "parsing"
    /\ rest # <<>>
    /\ Trim(Head(rest)) # <<>>
    /\ ProcessLine(Trim(Head(rest))).kind = "cookie"
    /\ raw' = Head(rest)
    /\ c' = Trim(Head(rest))
    /\ cookie' = ProcessLine(Trim(Head(rest))).cookie
    /\ jar' = JarAdd(jar, cookie')
    /\ rest' = Tail(rest)
    /\ UNCHANGED <<pc, s, result, given, jar0, parsed, nlines>>

\* an iteration that passes over the line it cannot parse and goes on
FailSkipsLine ==
    /\ pc = "parsing"
    /\ rest # <<>>
    /\ Trim(Head(rest)) # <<>>
    /\ ProcessLine(Trim(Head(rest))).kind = "err"
    /\ raw' = Head(rest)
    /\ c' = Trim(Head(rest))
    /\ cookie' = NoCookie
    /\ rest' = Tail(rest)
    /\ UNCHANGED <<jar, pc, s, result, given, jar0, parsed, nlines>>

\* an iteration that fails: `?` or return Err(..) leaves parse; self, which
\* parse took by value, is dropped and its jar with it
Fail ==
    /\ pc = "parsing"
    /\ rest # <<>>
    /\ Trim(Head(rest)) # <<>>
    /\ ProcessLine(Trim(Head(rest))).kind = "err"
    /\ raw' = Head(rest)
    /\ c' = Trim(Head(rest))
    /\ cookie' = NoCookie
    /\ result' = Err(ProcessLine(Trim(Head(rest))).err)
    /\ pc' = "failed"
    /\ jar' = {}
    /\ rest' = Tail(rest)
    /\ UNCHANGED <<s, given, jar0, parsed, nlines>>

\* the loop is over: Ok(self)
ParseOk ==
    /\ pc = "parsing"
    /\ rest = <<>>
    /\ pc' = "ready"
    /\ result' = Ok
    /\ parsed' = Append(parsed, s)
    /\ UNCHANGED <<jar, s, rest, raw, c, cookie, given, jar0, nlines>>

\* CookieJarBuilder::finish: the jar is handed to the caller
Finish ==
    /\ pc = "ready"
    /\ pc' = "finished"
    /\ UNCHANGED <<jar, s, rest, raw, c, cookie, result, given, jar0, parsed, nlines>>

Next ==
    \/ \E t \in Texts[MaxLines - nlines] : ParseStart(t)
    \/ SkipBlank
    \/ SkipComment
    \/ AddCookie
    \/ Fail
    \/ ParseOk
    \/ Finish

Spec == Init /\ [][Next]_vars

-----------------------------------------------------------------------------
(* The vocabulary of the properties.  In every state c is the trimmed line  *)
(* of the last iteration of the call in progress (or of the last call), raw *)
(* the same line before trim, cookie the cookie that iteration built, and   *)
(* result is Err(e) exactly when that iteration failed.                     *)

\* a line that is blank, or a comment: '#' first, but not the marker
Ignorable(line) ==
    LET tl == Trim(line)
    IN \/ tl = <<>>
       \/ StartsWith(tl, <<"#">>) /\ ~StartsWith(tl, HttpOnlyMarker)

NotIgnorable(line) == ~Ignorable(line)

\* the tab-separated fields of a data line, the leading marker, if there is
\* one, removed once
FieldsOf(line) == Split(StripPrefixOnce(line, HttpOnlyMarker), TAB)

\* the last iteration was given a data line
OnDataLine == c # <<>> /\ NotIgnorable(c)

\* field k of the seven is missing or, for secure and expiration, invalid
FieldBad(f, k) ==
    \/ k > Len(f)
    \/ k = 4 /\ f[4] \notin {T_TRUE, T_FALSE}
    \/ k = 5 /\ ~ParseI64(f[5]).ok

LineBad(f) == \E k \in 1..7 : FieldBad(f, k)

\* the error of the leftmost bad field
LineError(f) ==
    LET k == CHOOSE i \in 1..7 : FieldBad(f, i) /\ \A j \in 1..(i - 1) : ~FieldBad(f, j)
    IN IF k > Len(f) THEN TooFewFileds ELSE InvaildValue(f[k])

\* line i of the text of the call fails validation
RawBad(i) ==
    /\ NotIgnorable(Lines(s)[i])
    /\ LineBad(FieldsOf(Trim(Lines(s)[i])))

\* the number of lines of s the loop has consumed
Consumed == Len(Lines(s)) - Len(rest)

\* the outcome of the loop of parse over the lines ls, from the jar j
RECURSIVE Run(_, _)
Run(j, ls) ==
    IF ls = <<>> THEN [result |-> Ok, jar |-> j]
    ELSE LET o == ProcessLine(Trim(Head(ls)))
         IN IF o.kind = "err" THEN [result |-> Err(o.err), jar |-> {}]
            ELSE IF o.kind = "cookie" THEN Run(JarAdd(j, o.cookie), Tail(ls))
            ELSE Run(j, Tail(ls))

\* the number of data lines of a text
DataLineCount(t) == Len(SelectSeq(Lines(t), NotIgnorable))

RECURSIVE DataLineTotal(_)
DataLineTotal(ts) ==
    IF ts = <<>> THEN 0 ELSE DataLineCount(Head(ts)) + DataLineTotal(Tail(ts))

-----------------------------------------------------------------------------
(* C1 *)

\* C1: parse is all-or-nothing and fails on the first error.  While the loop
\* runs, no line it has consumed fails validation; when parse has failed, the
\* line consumed last is the first line of the text that fails validation,
\* the error returned is that of its leftmost bad field, the lines after it
\* are left unconsumed, and the builder's jar is gone; when parse has
\* returned Ok, no line of the text fails validation; and finish hands out a
\* jar only if no parse call failed.
C1_AllOrNothing ==
    /\ pc = "parsing" => \A i \in 1..Consumed : ~RawBad(i)
    /\ pc = "failed" =>
           /\ Consumed >= 1
           /\ RawBad(Consumed)
           /\ \A i \in 1..(Consumed - 1) : ~RawBad(i)
           /\ result = Err(LineError(FieldsOf(Trim(Lines(s)[Consumed]))))
           /\ jar = {}
    /\ (pc = "ready" /\ result = Ok) => \A i \in 1..Len(Lines(s)) : ~RawBad(i)
    /\ pc = "finished" => result \in {Ok, Pending}

\* a parse that failed on its second line, after its first line had built a
\* cookie
C1_Witness ==
    /\ pc = "failed"
    /\ Consumed = 2
    /\ ProcessLine(Trim(Lines(s)[1])).kind = "cookie"
    /\ jar = {}

-----------------------------------------------------------------------------
(* C2 *)

\* C2: the jar returned by parse for a text of well-formed data lines,
\* comments and blank lines holds as many records as the text has data lines,
\* a line with the name of an earlier line adding a further record.
C2_RecordPerDataLine ==
    (pc = "ready" /\ result = Ok /\ given = {} /\ Len(parsed) = 1)
        => Cardinality(jar) = DataLineCount(s)

-----------------------------------------------------------------------------
(* C3 *)

\* C3: for a data line with a fourth field, a built record has secure = true
\* iff that field is exactly "TRUE" and secure = false iff it is exactly
\* "FALSE", and any other token makes parse fail with InvaildValue carrying
\* that token.
C3_SecureExact ==
    (OnDataLine /\ Len(FieldsOf(c)) >= 4) =>
        LET tok == FieldsOf(c)[4]
        IN /\ cookie # NoCookie =>
                  /\ tok \in {T_TRUE, T_FALSE}
                  /\ cookie.secure = TRUE <=> tok = T_TRUE
                  /\ cookie.secure = FALSE <=> tok = T_FALSE
           /\ tok \notin {T_TRUE, T_FALSE} =>
                  /\ cookie = NoCookie
                  /\ pc = "failed"
                  /\ result = Err(InvaildValue(tok))

\* the lower-case token "true" was rejected
C3_Witness ==
    /\ OnDataLine
    /\ Len(FieldsOf(c)) >= 4
    /\ FieldsOf(c)[4] = T_true
    /\ result = Err(InvaildValue(T_true))

-----------------------------------------------------------------------------
(* C4 *)

\* the line of the last iteration is well-formed but for its fifth field
OtherwiseWellFormed ==
    /\ OnDataLine
    /\ Len(FieldsOf(c)) >= 7
    /\ FieldsOf(c)[4] \in {T_TRUE, T_FALSE}

\* C4, as claimed: the token "0" yields no expiry, any other token that
\* parses as an i64 t yields the expiry t, a token that does not parse makes
\* parse fail with InvaildValue carrying it.
C4_ExpirationByToken ==
    OtherwiseWellFormed =>
        LET tok == FieldsOf(c)[5]
            t == ParseI64(tok)
        IN /\ tok = <<"0">> => cookie # NoCookie /\ cookie.expires = Session
           /\ (tok # <<"0">> /\ t.ok) =>
                  cookie # NoCookie /\ cookie.expires = DateTime(t)
           /\ ~t.ok => cookie = NoCookie /\ result = Err(InvaildValue(tok))

\* C4, amended: a token that parses as the i64 0 ("0", "-0", "+0", "00", ..)
\* yields no expiry, a token that parses as an i64 t other than 0 yields the
\* expiry t, a token that does not parse makes parse fail with InvaildValue
\* carrying it.
C4_ExpirationByValue ==
    OtherwiseWellFormed =>
        LET tok == FieldsOf(c)[5]
            t == ParseI64(tok)
        IN /\ (t.ok /\ t = Zero64) => cookie # NoCookie /\ cookie.expires = Session
           /\ (t.ok /\ t # Zero64) =>
                  cookie # NoCookie /\ cookie.expires = DateTime(t)
           /\ ~t.ok =>
                  cookie = NoCookie /\ pc = "failed" /\ result = Err(InvaildValue(tok))

\* a record without expiry built from the token "-0"
C4_Witness ==
    /\ OtherwiseWellFormed
    /\ FieldsOf(c)[5] = <<"-", "0">>
    /\ cookie # NoCookie
    /\ cookie.expires = Session

-----------------------------------------------------------------------------
(* C5 *)

\* C5: a line L that starts with the marker is parsed as the text R after
\* that one marker is parsed as a normal data line, but for http_only = true;
\* a data line without the marker leaves http_only unset.
C5_MarkerRemovedOnce ==
    /\ (c # <<>> /\ StartsWith(c, HttpOnlyMarker)) =>
           LET R == Drop(c, Len(HttpOnlyMarker))
               o == Tokenize(FALSE, Split(R, TAB))
           IN /\ o.kind = "err" => cookie = NoCookie /\ result = Err(o.err)
              /\ o.kind = "cookie" =>
                     cookie = [o.cookie EXCEPT !.http_only = "Some(true)"]
    /\ (OnDataLine /\ ~StartsWith(c, HttpOnlyMarker) /\ cookie # NoCookie) =>
           cookie.http_only = "None"

-----------------------------------------------------------------------------
(* C6 *)

\* C6: comment and blank lines contribute nothing.  An iteration on such a
\* line builds no record and raises no error, and the outcome of parse (the
\* error, or Ok and the jar) is the outcome of the loop over the text with
\* all such lines removed, so that inserting or removing one changes nothing.
C6_IgnorableLinesContributeNothing ==
    /\ (pc = "failed" \/ cookie # NoCookie) => NotIgnorable(raw)
    /\ (pc = "parsing" /\ Ignorable(raw)) => cookie = NoCookie /\ result = Pending
    /\ (pc = "failed" \/ (pc = "ready" /\ result = Ok)) =>
           [result |-> result, jar |-> jar]
               = Run(jar0, SelectSeq(Lines(s), NotIgnorable))

\* a parse that returned Ok for a text with a comment line before a data line
C6_Witness ==
    /\ pc = "ready"
    /\ result = Ok
    /\ cookie # NoCookie
    /\ jar # jar0
    /\ \E i \in 1..Len(Lines(s)) :
           StartsWith(Trim(Lines(s)[i]), <<"#">>) /\ Ignorable(Lines(s)[i])

-----------------------------------------------------------------------------
(* C7 *)

\* C7, as claimed: a data line with fewer than seven fields makes parse fail
\* with TooFewFileds, whatever the fields that are present hold.
C7_TooFewWhateverTokens ==
    (OnDataLine /\ Len(FieldsOf(c)) < 7) =>
        pc = "failed" /\ result = Err(TooFewFileds)

\* C7, amended: a data line with fewer than seven fields makes parse fail and
\* return no jar; the error is TooFewFileds unless the secure field is
\* present and is neither "TRUE" nor "FALSE", or the secure field is valid and
\* the expiration field is present and is no i64: the error is then
\* InvaildValue carrying that field.
C7_TooFewUnlessInvalid ==
    (OnDataLine /\ Len(FieldsOf(c)) < 7) =>
        LET f == FieldsOf(c)
        IN /\ pc = "failed"
           /\ cookie = NoCookie
           /\ jar = {}
           /\ result = Err(IF Len(f) >= 4 /\ f[4] \notin {T_TRUE, T_FALSE}
                           THEN InvaildValue(f[4])
                           ELSE IF Len(f) >= 5 /\ ~ParseI64(f[5]).ok
                           THEN InvaildValue(f[5])
                           ELSE TooFewFileds)

\* a line of five fields, the fifth no integer, failed with InvaildValue
C7_Witness ==
    /\ OnDataLine
    /\ Len(FieldsOf(c)) = 5
    /\ pc = "failed"
    /\ result = Err(InvaildValue(<<"1", "x">>))

-----------------------------------------------------------------------------
(* C8 *)

\* C8: with_jar(J).parse(T)...finish() returns a jar that holds every record
\* of J, unchanged, together with one record per data line of the texts
\* parsed.
C8_MergeExtendsGivenJar ==
    (pc = "finished" /\ result \in {Ok, Pending}) =>
        /\ given \subseteq jar
        /\ Cardinality(jar) = Cardinality(given) + DataLineTotal(parsed)

-----------------------------------------------------------------------------
(* C9 *)

\* C9, as claimed: every record of a jar returned by a successful parse has a
\* non-empty domain, a non-empty path and a non-empty name.
C9_NonEmptyFields ==
    (pc = "ready" /\ result = Ok) =>
        \A x \in jar : x.domain # <<>> /\ x.path # <<>> /\ x.name # <<>>

\* C9, amended: a record is built only from a line that has all seven fields;
\* its path and name are the third and sixth field, which may be empty; its
\* domain is the first field and is non-empty when the line does not start
\* with the marker (it may be empty when the line does).
C9_FieldsPresent ==
    cookie # NoCookie =>
        LET f == FieldsOf(c)
        IN /\ OnDataLine
           /\ Len(f) >= 7
           /\ cookie.path = f[3]
           /\ cookie.name = f[6]
           /\ ~StartsWith(c, HttpOnlyMarker) =>
                  cookie.domain = f[1] /\ cookie.domain # <<>>

\* a successful parse returned a record with an empty path and an empty name
C9_Witness ==
    /\ pc = "ready"
    /\ result = Ok
    /\ cookie # NoCookie
    /\ cookie \in jar
    /\ cookie.path = <<>>
    /\ cookie.name = <<>>

-----------------------------------------------------------------------------
(* C10 *)

\* C10: a data line whose source text holds all seven fields, with a valid
\* secure token and a valid expiration token, yields a record, also when
\* other fields are empty and the line ends with a tab; TooFewFileds is
\* raised only for a source line of fewer than seven fields.
C10_EmptyFieldsAccepted ==
    (raw # <<>> /\ NotIgnorable(raw)) =>
        LET f == FieldsOf(TrimKeepingTabs(raw))
        IN /\ ( /\ Len(f) >= 7
                /\ f[4] \in {T_TRUE, T_FALSE}
                /\ ParseI64(f[5]).ok ) => cookie # NoCookie
           /\ result = Err(TooFewFileds) => Len(f) < 7

=============================================================================
